---- MODULE Spec2Model ----
(***************************************************************************)
(* Model of the book recommender (src/book _recomendations/book_chatbot.py)*)
(* as a state machine: the durable environment (the CSV file, the flag     *)
(* file, the Pinecone index), one process at a time running __main__, and  *)
(* the external calls it makes, each an atomic step with the outcomes the  *)
(* callee can produce.                                                     *)
(*                                                                         *)
(* Encodings.  A CSV cell is an integer: NaN (0) is a missing cell, a      *)
(* title of row k is k, its authors 10+k, its rating 40+k (tenths), Junk   *)
(* (-1) is a rating cell that is not a number.  A python str made from a   *)
(* number keeps how it was made: str(1) is [n |-> 1, float |-> FALSE] and  *)
(* str(1.0) is [n |-> 1, float |-> TRUE].  An utterance is a sequence of   *)
(* one-character strings.                                                  *)
(***************************************************************************)
EXTENDS Integers, Sequences, FiniteSets, TLC

VARIABLES
    environ,        \* the required keys that the environment sets
    csv0,           \* the rows of the data file as first seen
    csvExists,      \* the data file exists
    csvHeader,      \* the data file has its header line (it is not 0 bytes)
    csv,            \* the rows of the data file
    flag,           \* indexed_flag_file exists
    indexExists,    \* the named Pinecone index exists
    indexReady,     \* describe_index(name).status['ready']
    store,          \* the index contents: id -> [values, metadata]
    runs,           \* processes started so far
    pc,             \* position of the running process
    exitKind,       \* how the process ended ("none" while it runs)
    data,           \* BookChatbot.data
    i,              \* upsert_data: the loop offset
    texts,          \* upsert_data: the texts of the current batch
    embeddings,     \* upsert_data: what embed_function returned for them
    vectors,        \* upsert_data: the vectors of the last upsert issued
    user_query,     \* run: the input read
    prev_query,     \* the input of the turn before, <<>> in the first turn
    query_embedding,\* run: the embedding of the input
    matches,        \* run: what index.query returned
    prompt,         \* run: the prompt handed to generate_response
    out,            \* run: the last "Bot:" line printed for this input
    calls,          \* external calls of this process before the chat loop
    turnCalls,      \* external calls made for the input last read
    flagSeen,       \* what setup() found: "unread", "present" or "absent"
    failedAt,       \* offset of the batch whose embed/build/upsert raised
    mismatchAt,     \* offset of a batch whose embeddings had another count
    lastFailedAt    \* failedAt of the previous process

vars == <<environ, csv0, csvExists, csvHeader, csv, flag, indexExists, indexReady, store, runs, pc, exitKind, data,
          i, texts, embeddings, vectors, user_query, prev_query, query_embedding,
          matches,
          prompt, out, calls, turnCalls, flagSeen, failedAt, mismatchAt,
          lastFailedAt>>

durable == <<environ, csv0, csvExists, csvHeader, csv, flag, indexExists, indexReady, store>>
ingest == <<i, texts, embeddings, vectors>>
turn == <<user_query, prev_query, query_embedding, matches, prompt, out, turnCalls>>
ghost == <<flagSeen, failedAt, mismatchAt, lastFailedAt>>

----------------------------------------------------------------------------
(* Bounds of the model.                                                    *)

\* Rows in the data file.
MaxRows == 4
\* Processes started one after the other.
MaxRuns == 2
\* Config.rows_to_process (100 in the source), scaled to the corpora above.
rows_to_process == 3
\* upsert_data's batch_size (50 in the source), scaled to the corpora above.
batch_size == 2

(* Program constants.                                                      *)
top_k == 5
model_dimension == 768

----------------------------------------------------------------------------
(* Values.                                                                 *)

NaN == 0
Junk == 0 - 1
None == [kind |-> "none"]
NoVec == [text |-> <<>>, mode |-> "none"]
NoOffset == 0 - 1

Min(a, b) == IF a <= b THEN a ELSE b

\* A well-formed row of the file.
Good(k) ==
    [bad |-> FALSE, bookID |-> k, title |-> k, authors |-> 10 + k,
     average_rating |-> 40 + k]

DefectKinds == {"no_id", "no_title", "no_authors", "bad_line", "junk_rating", "dup_id"}

Defect(kind, k) ==
    CASE kind = "no_id"       -> [Good(k) EXCEPT !.bookID = NaN]
      [] kind = "no_title"    -> [Good(k) EXCEPT !.title = NaN]
      [] kind = "no_authors"  -> [Good(k) EXCEPT !.authors = NaN]
      [] kind = "bad_line"    -> [Good(k) EXCEPT !.bad = TRUE]
      [] kind = "junk_rating" -> [Good(k) EXCEPT !.average_rating = Junk]
      [] OTHER                -> [Good(k) EXCEPT !.bookID = 1]

\* The data files of the model: n rows, at most one of them defective.
Corpora ==
    { [k \in 1..n |-> Good(k)] : n \in 0..MaxRows }
    \cup UNION { { [k \in 1..n |-> IF k = d THEN Defect(kind, k) ELSE Good(k)] :
                   d \in 1..n, kind \in DefectKinds } : n \in 1..MaxRows }

\* What the operator may do to the rows of the data file between two runs:
\* nothing, or remove its first row.
NextCsv(c) == {c} \cup (IF Len(c) > 0 THEN {Tail(c)} ELSE {})

----------------------------------------------------------------------------
(* BookChatbot._load_data, as a function of the file's rows.               *)

\* pd.read_csv(on_bad_lines='skip'): lines it cannot parse are left out.
read_csv(rows) == SelectSeq(rows, LAMBDA r : ~r.bad)

\* The bookID column is float64 when a cell of it is missing, else int64.
IdIsFloat(df) == \E k \in 1..Len(df) : df[k].bookID = NaN

\* df.dropna(subset=['bookID', 'title', 'authors'])
dropna(df) ==
    SelectSeq(df, LAMBDA r : r.bookID # NaN /\ r.title # NaN /\ r.authors # NaN)

\* df.head(n)
head(df, n) == SubSeq(df, 1, Min(n, Len(df)))

\* "Title: " + title + "; Authors: " + authors
description_for_embedding(r) == <<"Title: ", r.title, "; Authors: ", r.authors>>

\* astype(str) of a bookID cell of a column that is float64 or int64.
astype_str(n, isFloat) == [n |-> n, float |-> isFloat]

\* _load_data as it would be if head() came before dropna().
load_data_head_first(rows) ==
    LET df == read_csv(rows)
        kept == dropna(head(df, rows_to_process))
    IN  [k \in 1..Len(kept) |->
            [bookID |-> astype_str(kept[k].bookID, IdIsFloat(df)),
             title |-> kept[k].title,
             authors |-> kept[k].authors,
             average_rating |-> kept[k].average_rating,
             description_for_embedding |-> description_for_embedding(kept[k])]]

load_data(rows) ==
    LET df == read_csv(rows)
        kept == head(dropna(df), rows_to_process)
    IN  [k \in 1..Len(kept) |->
            [bookID |-> astype_str(kept[k].bookID, IdIsFloat(df)),
             title |-> kept[k].title,
             authors |-> kept[k].authors,
             average_rating |-> kept[k].average_rating,
             description_for_embedding |-> description_for_embedding(kept[k])]]

----------------------------------------------------------------------------
(* GeminiService.embed_content: the provider's replies.                    *)

Vec(text, task_type) == [text |-> text, mode |-> task_type]

\* "ok": one vector per text, in order; "short": the last one is missing;
\* "long": one more than asked for; "raise": the call raises.
EmbedOutcomes == {"ok", "short", "long", "raise"}

embed_content(ts, task_type, outcome) ==
    LET full == [k \in 1..Len(ts) |-> Vec(ts[k], task_type)]
    IN  CASE outcome = "ok"    -> full
          [] outcome = "short" -> SubSeq(full, 1, Len(full) - 1)
          [] OTHER             -> Append(full, Vec(<<>>, task_type))

----------------------------------------------------------------------------
(* PineconeService.upsert_data: one batch.                                 *)

\* The slice as it would be if it took one row of the next batch too.
iloc_overlap(df, from, to) == SubSeq(df, from + 1, Min(to + 1, Len(df)))

\* The slice as it would be if it left out the last row of each batch.
iloc_short(df, from, to) == SubSeq(df, from + 1, Min(to, Len(df)) - 1)

\* data.iloc[i:i + batch_size], i counted from 0.
iloc(df, from, to) == SubSeq(df, from + 1, Min(to, Len(df)))

\* float(row['average_rating']) raises ValueError on a cell that is no number.
FloatRaises(cell) == cell = Junk
float(cell) == [tenths |-> cell]

\* The loop of lines 100-111 raises when a row has no embedding at its
\* position (IndexError) or a rating that is no number (ValueError).
BuildRaises(batch_df, embs) ==
    \E p \in 1..Len(batch_df) :
        p > Len(embs) \/ FloatRaises(batch_df[p].average_rating)

\* The handler of __main__ that the loop's exception reaches: at the first row
\* that raises, embeddings[len(vectors)] is evaluated before float(...), so a
\* missing embedding is an IndexError (line 210); else the row's rating is no
\* number, a ValueError, which line 208 reports as a configuration error.
BuildExit(batch_df, embs) ==
    LET first == CHOOSE p \in 1..Len(batch_df) :
                    /\ p > Len(embs) \/ FloatRaises(batch_df[p].average_rating)
                    /\ \A q \in 1..(p - 1) :
                          ~(q > Len(embs) \/ FloatRaises(batch_df[q].average_rating))
    IN  IF first > Len(embs) THEN "unexpected" ELSE "config_error"

\* BuildVector as it would be if it took the embeddings from the far end.
BuildVector_reversed(batch_df, embs, p) ==
    [id |-> batch_df[p].bookID,
     values |-> embs[Len(batch_df) + 1 - p],
     metadata |-> [title |-> batch_df[p].title,
                   authors |-> batch_df[p].authors,
                   average_rating |-> float(batch_df[p].average_rating)]]

\* The vector built for the row at position p (1-based) of the batch:
\* embeddings[len(vectors)] is the embedding at the row's own position.
BuildVector(batch_df, embs, p) ==
    [id |-> batch_df[p].bookID,
     values |-> embs[p],
     metadata |-> [title |-> batch_df[p].title,
                   authors |-> batch_df[p].authors,
                   average_rating |-> float(batch_df[p].average_rating)]]

BuildVectors(batch_df, embs) ==
    [p \in 1..Len(batch_df) |-> BuildVector(batch_df, embs, p)]

\* index.upsert as it would be if it left an id already in the index alone.
Upsert_keep_first(st, vs) ==
    LET ids == {vs[p].id : p \in 1..Len(vs)}
        last(id) == CHOOSE p \in 1..Len(vs) :
                        /\ vs[p].id = id
                        /\ \A q \in 1..Len(vs) : vs[q].id = id => q <= p
    IN  [id \in DOMAIN st \cup ids |->
            IF id \in DOMAIN st
            THEN st[id]
            ELSE [values |-> vs[last(id)].values, metadata |-> vs[last(id)].metadata]]

\* index.upsert(vectors): insert or overwrite by id, the later vector of the
\* same id winning.
Upsert(st, vs) ==
    LET ids == {vs[p].id : p \in 1..Len(vs)}
        last(id) == CHOOSE p \in 1..Len(vs) :
                        /\ vs[p].id = id
                        /\ \A q \in 1..Len(vs) : vs[q].id = id => q <= p
    IN  [id \in DOMAIN st \cup ids |->
            IF id \in ids
            THEN [values |-> vs[last(id)].values, metadata |-> vs[last(id)].metadata]
            ELSE st[id]]

EmptyStore == [id \in {} |-> None]

----------------------------------------------------------------------------
(* BookChatbot.run: the pure parts of a turn.                              *)

\* str.lower(), character by character.
LowerChar(c) ==
    CASE c = "Q" -> "q" [] c = "U" -> "u" [] c = "I" -> "i" [] c = "T" -> "t"
      [] c = "E" -> "e" [] c = "X" -> "x" [] OTHER -> c

lower(s) == [k \in 1..Len(s) |-> LowerChar(s[k])]

\* user_query.lower() in ['quit', 'exit']
IsTermination(s) ==
    lower(s) \in {<<"q", "u", "i", "t">>, <<"e", "x", "i", "t">>}

\* What the user may type.
Inputs ==
    { <<"q", "u", "i", "t">>, <<"Q", "u", "I", "t">>, <<"E", "x", "i", "t">>,
      <<"q", "u", "i", "t", " ">>, <<"s", "c", "i", "f", "i">> }

\* The errors an external call may raise.
Errors == {"503"}

\* The ids of the index in a fixed order (by number, str(int) before str(float)).
IdKey(id) == 2 * id.n + (IF id.float THEN 1 ELSE 0)

RECURSIVE SortedIds(_)
SortedIds(ids) ==
    IF ids = {} THEN <<>>
    ELSE LET m == CHOOSE x \in ids : \A y \in ids : IdKey(x) <= IdKey(y)
         IN  <<m>> \o SortedIds(ids \ {m})

Reverse(s) == [k \in 1..Len(s) |-> s[Len(s) + 1 - k]]
Rotate(s, r) == [k \in 1..Len(s) |-> s[((k - 1 + r) % Len(s)) + 1]]

\* The similarity orders the index may answer with: which entries are nearest
\* depends on the query vector, so every rotation of the ids and of their
\* reverse is one.
Rankings(st) ==
    LET asc == SortedIds(DOMAIN st)
    IN  IF asc = <<>> THEN {<<>>}
        ELSE {Rotate(asc, r) : r \in 0..(Len(asc) - 1)}
             \cup {Rotate(Reverse(asc), r) : r \in 0..(Len(asc) - 1)}

\* index.query(vector, top_k, include_metadata=True)['matches'] for a ranking.
query(st, ranking, k) ==
    [p \in 1..Min(k, Len(ranking)) |->
        [id |-> ranking[p],
         score |-> Len(ranking) - p,
         metadata |-> st[ranking[p]].metadata]]

\* dict.get(key, default)
get(d, key, default) == IF key \in DOMAIN d THEN d[key] ELSE default

NA == [na |-> TRUE]
EmptyDict == [k \in {} |-> NA]

\* f"{x}" of a float: its digits before and after the point; of 'N/A', itself.
FormatValue(f) ==
    IF "tenths" \in DOMAIN f THEN <<f.tenths \div 10, ".", f.tenths % 10>> ELSE <<"N/A">>

\* One "Result {i+1}:" paragraph of the context.
format_result(p, match) ==
    LET metadata == get(match, "metadata", EmptyDict)
    IN  [result |-> p,
         title |-> get(metadata, "title", NA),
         authors |-> get(metadata, "authors", NA),
         average_rating |-> FormatValue(get(metadata, "average_rating", NA))]

\* _format_context as it would be if it listed the best-rated match first.
format_context_by_rating(ms) ==
    LET better(a, b) == get(get(a, "metadata", EmptyDict), "average_rating", NA).tenths
                        >= get(get(b, "metadata", EmptyDict), "average_rating", NA).tenths
        sorted == SortSeq(ms, better)
    IN  [p \in 1..Len(sorted) |-> format_result(p, sorted[p])]

\* BookChatbot._format_context: the numbered results after the heading.
format_context(ms) == [p \in 1..Len(ms) |-> format_result(p, ms[p])]

\* The test of line 179 as it would be if it never held.
no_matches_never(ms) == Len(ms) < 0

\* `if not matches`
no_matches(ms) == Len(ms) = 0

\* The prompt as it would be without the user's request in it.
build_prompt_no_request(context, request) ==
    [context |-> context, request |-> <<>>, task |-> "only_context"]

\* The prompt of lines 185-196: the context, the request and the fixed task.
build_prompt(context, request) ==
    [context |-> context, request |-> request, task |-> "only_context"]

\* generate_response as it would be without its try/except.
generate_response_propagates(p, outcome) ==
    IF outcome = "ok" THEN [kind |-> "generated", of |-> p]
    ELSE [kind |-> "raise", error |-> outcome]

\* GeminiService.generate_response: the provider's text, or the fallback
\* string with the error in it; "raise" would be an exception leaving it.
generate_response(p, outcome) ==
    IF outcome = "ok" THEN [kind |-> "generated", of |-> p]
    ELSE [kind |-> "fallback", error |-> outcome]

NoResults == [kind |-> "no_results"]
Goodbye == [kind |-> "goodbye"]

----------------------------------------------------------------------------
(* The state machine.                                                      *)

\* The keys Config.__post_init__ reads from the environment.
RequiredKeys == {"PINECONE_API_KEY", "PINECONE_ENVIRONMENT", "GOOGLE_API_KEY"}

\* The test of line 39 as it would be with any() for all().
any_key(env) == \E k \in RequiredKeys : k \in env

\* all([pinecone_api_key, pinecone_env, google_api_key])
all_keys(env) == \A k \in RequiredKeys : k \in env

Call(op, mode, off, n, ok) == [op |-> op, mode |-> mode, off |-> off, n |-> n, ok |-> ok]

\* A process as it starts: nothing loaded, nothing called.
Fresh ==
    /\ pc' = "main"
    /\ exitKind' = "none"
    /\ data' = <<>>
    /\ i' = 0
    /\ texts' = <<>>
    /\ embeddings' = <<>>
    /\ vectors' = <<>>
    /\ user_query' = <<>>
    /\ prev_query' = <<>>
    /\ query_embedding' = NoVec
    /\ matches' = <<>>
    /\ prompt' = None
    /\ out' = None
    /\ calls' = <<>>
    /\ turnCalls' = <<>>
    /\ flagSeen' = "unread"
    /\ failedAt' = NoOffset
    /\ mismatchAt' = NoOffset

Init ==
    /\ environ \in SUBSET RequiredKeys
    /\ csvExists \in BOOLEAN
    /\ csvHeader \in (IF csvExists THEN BOOLEAN ELSE {FALSE})
    /\ csv \in (IF csvHeader THEN Corpora ELSE {<<>>})
    /\ csv0 = csv
    /\ flag = FALSE
    /\ indexExists = FALSE
    /\ indexReady = FALSE
    /\ store = EmptyStore
    /\ runs = 1
    /\ pc = "main"
    /\ exitKind = "none"
    /\ data = <<>>
    /\ i = 0
    /\ texts = <<>>
    /\ embeddings = <<>>
    /\ vectors = <<>>
    /\ user_query = <<>>
    /\ prev_query = <<>>
    /\ query_embedding = NoVec
    /\ matches = <<>>
    /\ prompt = None
    /\ out = None
    /\ calls = <<>>
    /\ turnCalls = <<>>
    /\ flagSeen = "unread"
    /\ failedAt = NoOffset
    /\ mismatchAt = NoOffset
    /\ lastFailedAt = NoOffset

\* The process ends: by run() returning, by exit(), or by an exception that
\* reaches the handlers of __main__ (lines 208-211).
Exit(kind) ==
    /\ pc' = "done"
    /\ exitKind' = kind

\* Config.__post_init__: a missing key raises ValueError.
Config_post_init ==
    /\ pc = "main"
    /\ IF all_keys(environ) THEN pc' = "init" /\ exitKind' = exitKind
       ELSE Exit("config_error")
    /\ UNCHANGED <<durable, runs, data, ingest, turn, calls, ghost>>

\* BookChatbot.__init__, line 122: _load_data; exit() on a missing file. Only
\* FileNotFoundError is caught: on a file of 0 bytes read_csv raises
\* EmptyDataError, a ValueError, which reaches line 208 of __main__.
BookChatbot_load_data ==
    /\ pc = "init"
    /\ IF csvExists /\ csvHeader
       THEN /\ data' = load_data(csv)
            /\ pc' = "get_index"
            /\ exitKind' = exitKind
       ELSE /\ data' = data
            /\ Exit(IF csvExists THEN "config_error" ELSE "sys_exit")
    /\ UNCHANGED <<durable, runs, ingest, turn, calls, ghost>>

\* PineconeService.get_or_create_index up to the readiness poll.
get_or_create_index ==
    /\ pc = "get_index"
    /\ \/ /\ indexExists
          /\ calls' = Append(calls, Call("list_indexes", "found", 0, 0, TRUE))
          /\ pc' = "setup"
          /\ UNCHANGED <<indexExists, indexReady, store, exitKind>>
       \/ /\ ~indexExists
          /\ calls' = calls \o <<Call("list_indexes", "absent", 0, 0, TRUE),
                                 Call("create_index", "cosine", 0, model_dimension, TRUE)>>
          /\ indexExists' = TRUE
          /\ indexReady' = FALSE
          /\ store' = EmptyStore
          /\ pc' = "poll"
          /\ UNCHANGED exitKind
       \/ /\ calls' = Append(calls, Call("list_indexes", "", 0, 0, FALSE))
          /\ Exit("unexpected")
          /\ UNCHANGED <<indexExists, indexReady, store>>
       \/ /\ ~indexExists
          /\ calls' = calls \o <<Call("list_indexes", "absent", 0, 0, TRUE),
                                 Call("create_index", "cosine", 0, model_dimension, FALSE)>>
          /\ Exit("unexpected")
          /\ UNCHANGED <<indexExists, indexReady, store>>
    /\ UNCHANGED <<environ, csv0, csvExists, csvHeader, csv, flag, runs, data, ingest, turn, ghost>>

\* The index service finishes creating the index.
IndexBecomesReady ==
    /\ indexExists
    /\ ~indexReady
    /\ indexReady' = TRUE
    /\ UNCHANGED <<environ, csv0, csvExists, csvHeader, csv, flag, indexExists, store, runs, pc, exitKind,
                   data, ingest, turn, calls, ghost>>

\* The poll as it would be if it did not wait for the index to be ready.
poll_ready_nowait ==
    /\ pc = "poll"
    /\ pc' = "setup"
    /\ UNCHANGED <<durable, runs, exitKind, data, ingest, turn, calls, ghost>>

\* Lines 83-84: while not describe_index(name).status['ready']: sleep(1).
poll_ready ==
    /\ pc = "poll"
    /\ indexReady
    /\ pc' = "setup"
    /\ UNCHANGED <<durable, runs, exitKind, data, ingest, turn, calls, ghost>>

\* setup as it would be if it did not look at the flag.
setup_always ==
    /\ pc = "setup"
    /\ flagSeen' = (IF flag THEN "present" ELSE "absent")
    /\ i' = 0
    /\ pc' = IF 0 < Len(data) THEN "embed" ELSE "write_flag"
    /\ UNCHANGED <<durable, runs, exitKind, data, texts, embeddings, vectors,
                   turn, calls, failedAt, mismatchAt, lastFailedAt>>

\* setup as it would be if it wrote the flag before upsert_data.
setup_flag_first ==
    /\ pc = "setup"
    /\ flagSeen' = (IF flag THEN "present" ELSE "absent")
    /\ flag' = TRUE
    /\ IF ~flag
       THEN /\ i' = 0
            /\ pc' = IF 0 < Len(data) THEN "embed" ELSE "write_flag"
       ELSE /\ i' = i
            /\ pc' = "await"
    /\ UNCHANGED <<environ, csv0, csvExists, csvHeader, csv, indexExists, indexReady, store, runs, exitKind,
                   data, texts, embeddings, vectors, turn, calls, failedAt,
                   mismatchAt, lastFailedAt>>

\* setup as it would be if upsert_data took up where the last run failed.
setup_resume ==
    /\ pc = "setup"
    /\ flagSeen' = (IF flag THEN "present" ELSE "absent")
    /\ IF ~flag
       THEN /\ i' = IF lastFailedAt # NoOffset /\ lastFailedAt < Len(data)
                    THEN lastFailedAt ELSE 0
            /\ pc' = IF i' < Len(data) THEN "embed" ELSE "write_flag"
       ELSE /\ i' = i
            /\ pc' = "await"
    /\ UNCHANGED <<durable, runs, exitKind, data, texts, embeddings, vectors,
                   turn, calls, failedAt, mismatchAt, lastFailedAt>>

\* setup as it would be if it wrote the flag only after upserting something.
setup_skips_empty ==
    /\ pc = "setup"
    /\ flagSeen' = (IF flag THEN "present" ELSE "absent")
    /\ IF ~flag
       THEN /\ i' = 0
            /\ pc' = IF 0 < Len(data) THEN "embed" ELSE "await"
       ELSE /\ i' = i
            /\ pc' = "await"
    /\ UNCHANGED <<durable, runs, exitKind, data, texts, embeddings, vectors,
                   turn, calls, failedAt, mismatchAt, lastFailedAt>>

\* BookChatbot.setup, lines 155-157 and 161-162: the flag decides.
setup ==
    /\ pc = "setup"
    /\ flagSeen' = (IF flag THEN "present" ELSE "absent")
    /\ IF ~flag
       THEN /\ i' = 0
            /\ pc' = IF 0 < Len(data) THEN "embed" ELSE "write_flag"
       ELSE /\ i' = i
            /\ pc' = "await"
    /\ UNCHANGED <<durable, runs, exitKind, data, texts, embeddings, vectors,
                   turn, calls, failedAt, mismatchAt, lastFailedAt>>

\* upsert_data_embed as it would be if a batch whose embed call raised were
\* skipped and the loop went on with the next batch.
upsert_data_embed_skips ==
    /\ pc = "embed"
    /\ texts' = [p \in 1..Len(iloc(data, i, i + batch_size)) |->
                    iloc(data, i, i + batch_size)[p].description_for_embedding]
    /\ \E outcome \in EmbedOutcomes :
        /\ calls' = Append(calls, Call("embed", "RETRIEVAL_DOCUMENT", i, Len(texts'),
                                       outcome # "raise"))
        /\ IF outcome = "raise"
           THEN /\ failedAt' = i
                /\ i' = i + batch_size
                /\ pc' = IF i' < Len(data) THEN "embed" ELSE "write_flag"
                /\ UNCHANGED <<embeddings, mismatchAt, exitKind>>
           ELSE /\ embeddings' = embed_content(texts', "RETRIEVAL_DOCUMENT", outcome)
                /\ mismatchAt' = IF Len(embeddings') # Len(texts') THEN i ELSE mismatchAt
                /\ pc' = "upsert"
                /\ UNCHANGED <<failedAt, exitKind, i>>
    /\ UNCHANGED <<durable, runs, data, vectors, turn, flagSeen, lastFailedAt>>

\* upsert_data, lines 95-98: the batch's texts and the call that embeds them.
upsert_data_embed ==
    /\ pc = "embed"
    /\ texts' = [p \in 1..Len(iloc(data, i, i + batch_size)) |->
                    iloc(data, i, i + batch_size)[p].description_for_embedding]
    /\ \E outcome \in EmbedOutcomes :
        /\ calls' = Append(calls, Call("embed", "RETRIEVAL_DOCUMENT", i, Len(texts'),
                                       outcome # "raise"))
        /\ IF outcome = "raise"
           THEN /\ failedAt' = i
                /\ Exit("unexpected")
                /\ UNCHANGED <<embeddings, mismatchAt>>
           ELSE /\ embeddings' = embed_content(texts', "RETRIEVAL_DOCUMENT", outcome)
                /\ mismatchAt' = IF Len(embeddings') # Len(texts') THEN i ELSE mismatchAt
                /\ pc' = "upsert"
                /\ UNCHANGED <<failedAt, exitKind>>
    /\ UNCHANGED <<durable, runs, data, i, vectors, turn, flagSeen, lastFailedAt>>

\* upsert_data, lines 100-112: the batch's vectors and the call that upserts
\* them; then the next batch, or the end of the loop.
upsert_data_upsert ==
    /\ pc = "upsert"
    /\ LET batch_df == iloc(data, i, i + batch_size)
       IN  IF BuildRaises(batch_df, embeddings)
           THEN /\ failedAt' = i
                /\ Exit(BuildExit(batch_df, embeddings))
                /\ UNCHANGED <<store, i, vectors, calls>>
           ELSE /\ vectors' = BuildVectors(batch_df, embeddings)
                /\ \E ok \in BOOLEAN :
                    /\ calls' = Append(calls, Call("upsert", "", i, Len(vectors'), ok))
                    /\ IF ok
                       THEN /\ store' = Upsert(store, vectors')
                            /\ i' = i + batch_size
                            /\ pc' = IF i' < Len(data) THEN "embed" ELSE "write_flag"
                            /\ UNCHANGED <<failedAt, exitKind>>
                       ELSE /\ failedAt' = i
                            /\ Exit("unexpected")
                            /\ UNCHANGED <<store, i>>
    /\ UNCHANGED <<environ, csv0, csvExists, csvHeader, csv, flag, indexExists, indexReady, runs, data, texts,
                   embeddings, turn, flagSeen, mismatchAt, lastFailedAt>>

\* setup as it would be if it returned after upsert_data without writing the
\* flag file.
setup_write_flag_skips ==
    /\ pc = "write_flag"
    /\ pc' = "await"
    /\ UNCHANGED <<durable, runs, exitKind, data, ingest, turn, calls, ghost>>

\* BookChatbot.setup, lines 158-160: the flag file is written.
setup_write_flag ==
    /\ pc = "write_flag"
    /\ flag' = TRUE
    /\ pc' = "await"
    /\ UNCHANGED <<environ, csv0, csvExists, csvHeader, csv, indexExists, indexReady, store, runs, exitKind,
                   data, ingest, turn, calls, ghost>>

\* run, lines 170-173: an input is read; a termination token ends the loop.
\* input() raises EOFError when the input is closed.
run_input ==
    /\ pc = "await"
    /\ prev_query' = user_query
    /\ query_embedding' = NoVec
    /\ matches' = <<>>
    /\ prompt' = None
    /\ turnCalls' = <<>>
    /\ \/ \E u \in Inputs :
            /\ user_query' = u
            /\ IF IsTermination(u)
               THEN out' = Goodbye /\ Exit("goodbye")
               ELSE out' = None /\ pc' = "q_embed" /\ exitKind' = exitKind
       \/ /\ user_query' = <<>>
          /\ out' = None
          /\ Exit("unexpected")
    /\ UNCHANGED <<durable, runs, data, ingest, calls, ghost>>

\* run_embed as it would be if it embedded the input in document mode.
run_embed_document_mode ==
    /\ pc = "q_embed"
    /\ \E outcome \in EmbedOutcomes :
        /\ turnCalls' = Append(turnCalls,
                               Call("embed", "RETRIEVAL_DOCUMENT", 0, 1, outcome # "raise"))
        /\ IF outcome = "raise"
              \/ Len(embed_content(<<user_query>>, "RETRIEVAL_DOCUMENT", outcome)) = 0
           THEN /\ Exit("unexpected")
                /\ UNCHANGED query_embedding
           ELSE /\ query_embedding' =
                       embed_content(<<user_query>>, "RETRIEVAL_DOCUMENT", outcome)[1]
                /\ pc' = "q_query"
                /\ UNCHANGED exitKind
    /\ UNCHANGED <<durable, runs, data, ingest, user_query, prev_query, matches, prompt, out,
                   calls, ghost>>

\* run, line 175: the input is embedded in query mode; [0] of the reply.
run_embed ==
    /\ pc = "q_embed"
    /\ \E outcome \in EmbedOutcomes :
        /\ turnCalls' = Append(turnCalls,
                               Call("embed", "RETRIEVAL_QUERY", 0, 1, outcome # "raise"))
        /\ IF outcome = "raise"
              \/ Len(embed_content(<<user_query>>, "RETRIEVAL_QUERY", outcome)) = 0
           THEN /\ Exit("unexpected")
                /\ UNCHANGED query_embedding
           ELSE /\ query_embedding' =
                       embed_content(<<user_query>>, "RETRIEVAL_QUERY", outcome)[1]
                /\ pc' = "q_query"
                /\ UNCHANGED exitKind
    /\ UNCHANGED <<durable, runs, data, ingest, user_query, prev_query, matches, prompt, out,
                   calls, ghost>>

\* run, lines 177-181: the index is queried; no match ends the turn with the
\* fixed line.
run_query ==
    /\ pc = "q_query"
    /\ \/ \E ranking \in Rankings(store) :
            /\ turnCalls' = Append(turnCalls, Call("query", "include_metadata", 0, top_k, TRUE))
            /\ matches' = query(store, ranking, top_k)
            /\ IF no_matches(matches')
               THEN out' = NoResults /\ pc' = "await"
               ELSE out' = out /\ pc' = "generate"
            /\ UNCHANGED exitKind
       \/ /\ turnCalls' = Append(turnCalls, Call("query", "include_metadata", 0, top_k, FALSE))
          /\ Exit("unexpected")
          /\ UNCHANGED <<matches, out>>
    /\ UNCHANGED <<durable, runs, data, ingest, user_query, prev_query, query_embedding, prompt,
                   calls, ghost>>

\* run_generate as it would be if the prompt carried the input of the turn
\* before as well.
run_generate_with_history ==
    /\ pc = "generate"
    /\ prompt' = build_prompt(format_context(matches), prev_query \o user_query)
    /\ \E outcome \in {"ok"} \cup Errors :
        LET response == generate_response(prompt', outcome)
        IN  /\ turnCalls' = Append(turnCalls, Call("generate", "", 0, 1, outcome = "ok"))
            /\ IF response.kind = "raise"
               THEN out' = out /\ Exit("unexpected")
               ELSE out' = response /\ pc' = "await" /\ exitKind' = exitKind
    /\ UNCHANGED <<durable, runs, data, ingest, user_query, prev_query, query_embedding, matches,
                   calls, ghost>>

\* run, lines 183-199: the context, the prompt, the generation call and the
\* line printed. An exception leaving generate_response would leave run too.
run_generate ==
    /\ pc = "generate"
    /\ prompt' = build_prompt(format_context(matches), user_query)
    /\ \E outcome \in {"ok"} \cup Errors :
        LET response == generate_response(prompt', outcome)
        IN  /\ turnCalls' = Append(turnCalls, Call("generate", "", 0, 1, outcome = "ok"))
            /\ IF response.kind = "raise"
               THEN out' = out /\ Exit("unexpected")
               ELSE out' = response /\ pc' = "await" /\ exitKind' = exitKind
    /\ UNCHANGED <<durable, runs, data, ingest, user_query, prev_query, query_embedding, matches,
                   calls, ghost>>

\* The operator starts the program again, possibly on an edited data file.
Restart ==
    /\ pc = "done"
    /\ runs < MaxRuns
    /\ runs' = runs + 1
    /\ csv' \in NextCsv(csv)
    /\ lastFailedAt' = failedAt
    /\ Fresh
    /\ environ' \in SUBSET RequiredKeys
    /\ UNCHANGED <<csv0, csvExists, csvHeader, flag, indexExists, indexReady, store>>

\* The operator deletes the index between two runs.
DeleteIndex ==
    /\ pc = "done"
    /\ indexExists
    /\ indexExists' = FALSE
    /\ indexReady' = FALSE
    /\ store' = EmptyStore
    /\ UNCHANGED <<environ, csv0, csvExists, csvHeader, csv, flag, runs, pc, exitKind, data, ingest, turn,
                   calls, ghost>>

Next ==
    \/ Config_post_init
    \/ BookChatbot_load_data
    \/ get_or_create_index
    \/ IndexBecomesReady
    \/ poll_ready
    \/ setup
    \/ upsert_data_embed
    \/ upsert_data_upsert
    \/ setup_write_flag
    \/ run_input
    \/ run_embed
    \/ run_query
    \/ run_generate
    \/ Restart
    \/ DeleteIndex

Spec == Init /\ [][Next]_vars

\* The steps of the program itself: the statements of __main__ run one after
\* the other and the blocking calls they make return or raise. Reading an
\* input waits for the user, and the index service, a restart and the
\* deletion of the index are not the program's to take.
ProgramStep ==
    \/ Config_post_init
    \/ BookChatbot_load_data
    \/ get_or_create_index
    \/ poll_ready
    \/ setup
    \/ upsert_data_embed
    \/ upsert_data_upsert
    \/ setup_write_flag
    \/ run_embed
    \/ run_query
    \/ run_generate

\* The program keeps running while it has a step to take.
FairSpec == Spec /\ WF_vars(ProgramStep)

----------------------------------------------------------------------------
(* Properties.                                                             *)

IsIngestCall(c) == c.op \in {"embed", "upsert"}
IngestCalls == SelectSeq(calls, IsIngestCall)
EmbedCalls == SelectSeq(calls, LAMBDA c : c.op = "embed")

\* The offsets at which upsert_data's loop starts a batch of df.
BatchOffsets(df) == {o \in 0..(Len(df) - 1) : o % batch_size = 0}

\* Every batch of data has, in calls, an embed call and a later upsert call
\* that both returned.
AllBatchesUpserted ==
    \A o \in BatchOffsets(data) :
        \E j, k \in DOMAIN calls :
            /\ j < k
            /\ calls[j].op = "embed" /\ calls[j].off = o /\ calls[j].ok
            /\ calls[k].op = "upsert" /\ calls[k].off = o /\ calls[k].ok

\* This process found the flag absent and has written it.
WroteFlag == flagSeen = "absent" /\ flag

\* C1: when the flag exists as setup() starts, setup() makes no call at all
\* (so no embedding and no upsert call), the process has made no such call
\* before it either, the index contents and the flag stay as they are, and the
\* chat loop is next, whatever the data file holds.
C1_MarkedSkipsIngestion ==
    [][(pc = "setup" /\ flag) =>
            /\ pc' = "await"
            /\ calls' = calls
            /\ Len(IngestCalls') = 0
            /\ UNCHANGED <<flag, indexExists, store>>]_vars

\* C1 witness: setup() skipped ingestion of a data file whose records are not
\* the ones the index holds.
C1_Witness ==
    /\ pc = "await"
    /\ flagSeen = "present"
    /\ Len(data) > 0
    /\ DOMAIN store # {}
    /\ {data[k].bookID : k \in 1..Len(data)} # DOMAIN store

\* C2: a process that found the flag absent has the flag written only after
\* every batch of its data was embedded and upserted with both calls
\* returning; once a batch has failed the flag is absent.
C2_MarkerOnlyAfterAllBatches ==
    /\ WroteFlag => (AllBatchesUpserted /\ failedAt = NoOffset)
    /\ failedAt # NoOffset => ~flag

\* C2 witness: the second batch failed after the first was upserted.
C2_Witness ==
    /\ pc = "done"
    /\ failedAt > 0
    /\ DOMAIN store # {}
    /\ ~flag

\* C3: in the process that follows one whose ingestion failed, setup() finds
\* the flag absent and ingestion runs from record 0: the k-th embed call is
\* for the batch at offset (k-1)*batch_size, whatever the batch the last run
\* failed at, and the chat loop is reached only with every batch embedded and
\* upserted again.
C3_RestartsFromZero ==
    lastFailedAt # NoOffset =>
        /\ flagSeen \in {"unread", "absent"}
        /\ \A k \in 1..Len(EmbedCalls) : EmbedCalls[k].off = (k - 1) * batch_size
        /\ pc \in {"embed", "upsert"} => i = batch_size * (Len(EmbedCalls) -
                                              (IF pc = "upsert" THEN 1 ELSE 0))
        /\ pc = "await" => (WroteFlag /\ AllBatchesUpserted)

\* C3 witness: the run after a failure at a later batch has upserted the
\* first batch again and gone on to the end.
C3_Witness ==
    /\ lastFailedAt > 0
    /\ pc = "await"
    /\ Len(data) > batch_size
    /\ AllBatchesUpserted

\* The last call made before the chat loop is an upsert.
LastIsUpsert == Len(calls) > 0 /\ calls[Len(calls)].op = "upsert"

\* C4: the vectors of an upsert are, position by position, the rows of the
\* batch: the row's id, its title, authors and rating, and the embedding
\* returned at the row's position; and when the upsert returns the index
\* holds them under those ids.
C4_PositionalCorrespondence ==
    LastIsUpsert =>
        LET off == calls[Len(calls)].off
            batch_df == iloc(data, off, off + batch_size)
        IN  /\ Len(vectors) = Len(batch_df)
            /\ \A p \in 1..Len(batch_df) :
                /\ vectors[p].id = batch_df[p].bookID
                /\ vectors[p].metadata.title = batch_df[p].title
                /\ vectors[p].metadata.authors = batch_df[p].authors
                /\ vectors[p].metadata.average_rating.tenths = batch_df[p].average_rating
                /\ vectors[p].values = embeddings[p]
                /\ vectors[p].values.text = batch_df[p].description_for_embedding
            /\ (calls[Len(calls)].ok /\ pc \in {"embed", "write_flag"}) =>
                \A p \in 1..Len(vectors) :
                    (\A q \in (p + 1)..Len(vectors) : vectors[q].id # vectors[p].id)
                    => /\ vectors[p].id \in DOMAIN store
                       /\ store[vectors[p].id].values = vectors[p].values
                       /\ store[vectors[p].id].metadata = vectors[p].metadata

\* C4 witness: a batch of two rows or more has been upserted.
C4_Witness ==
    /\ LastIsUpsert
    /\ calls[Len(calls)].ok
    /\ Len(vectors) >= 2
    /\ pc \in {"embed", "write_flag"}

\* C5 (as claimed): a batch whose embeddings come back in another number than
\* its texts is never upserted, its process never writes the flag and never
\* goes on past that batch.
C5_MismatchIsHardError ==
    mismatchAt # NoOffset =>
        /\ \A k \in DOMAIN calls : ~(calls[k].op = "upsert" /\ calls[k].off = mismatchAt)
        /\ ~WroteFlag
        /\ pc \in {"upsert", "done"}
        /\ pc = "done" => failedAt = mismatchAt

HasCall(log, op, ok) == \E k \in DOMAIN log : log[k].op = op /\ log[k].ok = ok
HasOp(log, op) == \E k \in DOMAIN log : log[k].op = op

\* C6: when the index query of a turn returns no match, the turn prints the
\* fixed no-results line, makes no generation call and builds no prompt, and
\* the session awaits the next input.
C6_EmptyRetrievalShortCircuit ==
    (HasCall(turnCalls, "query", TRUE) /\ Len(matches) = 0) =>
        /\ out = NoResults
        /\ ~HasOp(turnCalls, "generate")
        /\ prompt = None
        /\ pc = "await"
        /\ exitKind = "none"

\* C6 witness: a turn on an empty index has ended with the no-results line.
C6_Witness ==
    /\ HasCall(turnCalls, "query", TRUE)
    /\ Len(matches) = 0
    /\ DOMAIN store = {}
    /\ pc = "await"

\* C7: the context of a prompt has one numbered result per match returned,
\* numbered from 1 in the order returned, each with the title, the authors
\* and the rating of the match at its position.
C7_ContextInReturnedOrder ==
    prompt # None =>
        /\ Len(matches) > 0
        /\ Len(prompt.context) = Len(matches)
        /\ \A p \in 1..Len(matches) :
            /\ prompt.context[p].result = p
            /\ prompt.context[p].title = matches[p].metadata.title
            /\ prompt.context[p].authors = matches[p].metadata.authors
            /\ prompt.context[p].average_rating[1] * 10 + prompt.context[p].average_rating[3]
                 = matches[p].metadata.average_rating.tenths
        /\ \A p \in 1..(Len(matches) - 1) : matches[p].score > matches[p + 1].score
        /\ prompt.request = user_query

\* C7 witness: a prompt built from matches that came back in an order that is
\* neither by id nor by rating.
C7_Witness ==
    /\ prompt # None
    /\ Len(matches) >= 3
    /\ IdKey(matches[1].id) > IdKey(matches[2].id)
    /\ matches[2].metadata.average_rating.tenths < matches[3].metadata.average_rating.tenths

\* C8 (as claimed): after an external call of a turn has raised, the session
\* is awaiting input again.
C8_TurnErrorsNeverEndSession ==
    HasCall(turnCalls, "embed", FALSE) \/ HasCall(turnCalls, "query", FALSE)
        \/ HasCall(turnCalls, "generate", FALSE)
    => (pc = "await" /\ exitKind = "none")

\* C9: when the generation call of a turn fails, the line printed is the
\* fallback string with that error in it, nothing is raised, and the session
\* awaits the next input.
C9_GenerationFailureFallsBack ==
    HasCall(turnCalls, "generate", FALSE) =>
        /\ out.kind = "fallback"
        /\ out.error \in Errors
        /\ pc = "await"
        /\ exitKind = "none"

\* C9 witness: a turn whose generation call failed has ended.
C9_Witness ==
    /\ HasCall(turnCalls, "generate", FALSE)
    /\ pc = "await"
    /\ out.kind = "fallback"

Processing == {"q_embed", "q_query", "generate"}

\* C10 (as claimed): from awaiting input the session ends exactly on a
\* termination token (or when reading the input fails), with no call made for
\* that input; any other input starts processing, and processing goes back to
\* awaiting input.
C10_EndsExactlyOnToken ==
    [][/\ pc = "await" =>
            /\ pc' = "done" <=> (IsTermination(user_query') \/ exitKind' = "unexpected")
            /\ IsTermination(user_query') => (turnCalls' = <<>> /\ exitKind' = "goodbye")
            /\ pc' # "done" => pc' = "q_embed"
       /\ pc \in Processing => pc' \in Processing \cup {"await"}]_vars

----------------------------------------------------------------------------

CountOp(log, op) == Cardinality({k \in DOMAIN log : log[k].op = op})
Last(log) == log[Len(log)]

\* A call was added to the log by this step, and it is a call of op.
Issued(log, logNext, op) ==
    /\ Len(logNext) > Len(log)
    /\ Last(logNext).op = op

\* C11: the process looks the index up once; when it is absent the process
\* creates it, once, right after the lookup, with metric cosine and the
\* configured dimension, and makes no embed, upsert or query call while the
\* index it created is not ready; when it is found no create call is made.
C11_CreateOnceThenWaitReady ==
    [][/\ CountOp(calls', "list_indexes") <= 1
       /\ CountOp(calls', "create_index") <= 1
       /\ (pc = "get_index" /\ calls'[1].ok) =>
            calls'[1].mode = (IF indexExists THEN "found" ELSE "absent")
       /\ \A k \in DOMAIN calls' :
            /\ (calls'[k].op = "list_indexes" /\ calls'[k].ok /\ calls'[k].mode = "absent")
                => /\ k + 1 \in DOMAIN calls'
                   /\ calls'[k + 1].op = "create_index"
                   /\ calls'[k + 1].mode = "cosine"
                   /\ calls'[k + 1].n = model_dimension
            /\ calls'[k].op = "create_index"
                => /\ k - 1 \in DOMAIN calls'
                   /\ calls'[k - 1].op = "list_indexes"
                   /\ calls'[k - 1].mode = "absent"
       /\ (HasCall(calls', "create_index", TRUE)
           /\ (Issued(calls, calls', "embed") \/ Issued(calls, calls', "upsert")
               \/ Issued(turnCalls, turnCalls', "query")))
            => indexReady]_vars

\* C11 witness: the process created the index and has upserted into it.
C11_Witness ==
    /\ HasCall(calls, "create_index", TRUE)
    /\ HasCall(calls, "upsert", TRUE)
    /\ indexReady

\* C12: a process started with a required key missing ends with the
\* configuration error and nothing else: no call made, no data loaded, the
\* flag not read, nothing printed by the chat loop, and the flag file and the
\* index left as they were.
C12_MissingKeyIsFatalFirst ==
    [][(RequiredKeys \ environ' # {} /\ pc' # "main") =>
            /\ pc' = "done"
            /\ exitKind' = "config_error"
            /\ calls' = <<>>
            /\ turnCalls' = <<>>
            /\ data' = <<>>
            /\ flagSeen' = "unread"
            /\ out' = None
            /\ pc = "main" => UNCHANGED <<flag, indexExists, indexReady, store, csv>>]_vars

\* C12 witness: a process with one key missing has ended.
C12_Witness ==
    /\ pc = "done"
    /\ exitKind = "config_error"
    /\ Cardinality(environ) = 2
    /\ csvExists
    /\ Len(csv) > 0

\* A line of the file that parses and has id, title and authors.
Complete(r) == ~r.bad /\ r.bookID # NaN /\ r.title # NaN /\ r.authors # NaN

\* The positions in rows of its complete rows.
CompleteAt(rows) == {k \in 1..Len(rows) : Complete(rows[k])}

\* d is the first rows_to_process complete rows of rows, in the order of rows.
FirstComplete(rows, d) ==
    /\ Len(d) = Min(Cardinality(CompleteAt(rows)), rows_to_process)
    /\ \A j \in 1..Len(d) :
        \E k \in CompleteAt(rows) :
            /\ Cardinality({q \in CompleteAt(rows) : q <= k}) = j
            /\ d[j].bookID.n = rows[k].bookID
            /\ d[j].title = rows[k].title
            /\ d[j].authors = rows[k].authors
            /\ d[j].average_rating = rows[k].average_rating

\* The scenario's file: three complete rows and one row without authors.
ThreeAndOne(rows) ==
    /\ Len(rows) = 4
    /\ Cardinality(CompleteAt(rows)) = 3
    /\ \E k \in 1..4 : ~rows[k].bad /\ rows[k].authors = NaN
    /\ rows_to_process >= 3

Loads == pc = "init" /\ pc' = "get_index"

\* C13 as stated: the load returns the first rows_to_process complete rows in
\* file order, and two records for the scenario's file.
C13_ScenarioReturnsTwo ==
    [][Loads => /\ FirstComplete(csv, data')
                /\ ThreeAndOne(csv) => Len(data') = 2]_vars

\* C13, amended: the load returns the first rows_to_process complete rows in
\* file order; for three complete rows and one row without authors these are
\* the three complete rows.
C13_LoadKeepsCompleteRows ==
    [][Loads => /\ FirstComplete(csv, data')
                /\ ThreeAndOne(csv) => /\ Len(data') = 3
                                       /\ \A j \in 1..3 : data'[j].authors # NaN]_vars

\* C13 witness: the scenario's file has been loaded.
C13_Witness ==
    /\ pc = "get_index"
    /\ ThreeAndOne(csv)
    /\ Len(data) = 3

\* The rows of data at positions off + 1 .. off + n.
Rows(off, n) == [p \in 1..n |-> data[off + p]]

\* C14: the embed and upsert calls of ingestion alternate, batch after batch
\* in the order of the data: the embed call of a batch carries all the texts
\* of the batch, the upsert call that follows carries the vectors of the same
\* rows, and a call is made only after every earlier call has returned.
C14_OneBatchAtATimeInOrder ==
    LET L == IngestCalls
    IN  /\ \A j \in DOMAIN L :
            /\ L[j].op = (IF j % 2 = 1 THEN "embed" ELSE "upsert")
            /\ L[j].off = ((j - 1) \div 2) * batch_size
            /\ L[j].n = Min(batch_size, Len(data) - L[j].off)
            /\ j < Len(L) => L[j].ok
        /\ pc \in {"embed", "write_flag"} => Len(L) % 2 = 0
        /\ pc = "upsert" =>
            /\ Len(L) % 2 = 1
            /\ Last(L).ok
            /\ texts = [p \in 1..Last(L).n |->
                          Rows(Last(L).off, Last(L).n)[p].description_for_embedding]
        /\ (Len(L) > 0 /\ Last(L).op = "upsert") =>
            /\ Len(vectors) = Last(L).n
            /\ \A p \in 1..Last(L).n :
                 vectors[p].id = Rows(Last(L).off, Last(L).n)[p].bookID

\* C14 witness: two batches have been embedded and upserted, one after the other.
C14_Witness ==
    /\ Len(IngestCalls) = 4
    /\ \A j \in 1..4 : IngestCalls[j].ok
    /\ pc = "write_flag"

\* C15: every embed call of ingestion is made in document mode, every embed
\* call of a turn in query mode and with the one input of the turn; the vectors
\* kept from either carry the mode of their role.
C15_EmbedModeByRole ==
    /\ \A k \in DOMAIN calls :
        calls[k].op = "embed" => calls[k].mode = "RETRIEVAL_DOCUMENT"
    /\ \A k \in DOMAIN turnCalls :
        turnCalls[k].op = "embed" =>
            /\ turnCalls[k].mode = "RETRIEVAL_QUERY"
            /\ turnCalls[k].n = 1
    /\ \A p \in DOMAIN embeddings : embeddings[p].mode = "RETRIEVAL_DOCUMENT"
    /\ \A id \in DOMAIN store : store[id].values.mode = "RETRIEVAL_DOCUMENT"
    /\ query_embedding # NoVec =>
        /\ query_embedding.mode = "RETRIEVAL_QUERY"
        /\ query_embedding.text = user_query

\* C15 witness: a process has embedded a batch and, later, an input.
C15_Witness ==
    /\ HasCall(calls, "embed", TRUE)
    /\ HasCall(turnCalls, "embed", TRUE)
    /\ query_embedding # NoVec
    /\ store # EmptyStore

\* The step that leaves _load_data, by returning or by ending the process.
LoadEnds == pc = "init" /\ pc' # "init"

\* C16: with the data file missing the process ends in _load_data, having
\* made no call and changed neither the flag nor the index, and never reads
\* an input; with the data file present _load_data returns and the process
\* goes on.
C16_OnlyMissingFileIsFatal ==
    [][LoadEnds =>
        /\ ~csvExists =>
            /\ pc' = "done"
            /\ exitKind' = "sys_exit"
            /\ calls' = <<>>
            /\ turnCalls' = <<>>
            /\ user_query' = <<>>
            /\ UNCHANGED <<flag, indexExists, indexReady, store>>
        /\ csvExists => pc' = "get_index"]_vars

\* The upsert calls of the process that returned, in order.
Upserted == SelectSeq(calls, LAMBDA c : c.op = "upsert" /\ c.ok)

\* The row at position r (1-based) of data is in the batch of call c.
InBatch(r, c) == c.off < r /\ r <= c.off + c.n

\* upsert_data has returned in this process.
PassDone ==
    /\ flagSeen = "absent"
    /\ failedAt = NoOffset
    /\ pc \notin {"setup", "embed", "upsert"}

CeilDiv(n, d) == (n + d - 1) \div d

\* C17: the batches are consecutive slices of batch_size rows: no batch is
\* empty, no row is in two batches, every batch but the last of the pass has
\* batch_size rows; after a pass that succeeded every row is in exactly one
\* batch and ceil(n / batch_size) embed calls and as many upsert calls were
\* made, n the number of rows loaded.
C17_FixedSizePartition ==
    /\ \A k \in DOMAIN IngestCalls :
        IngestCalls[k].n >= 1 /\ IngestCalls[k].n <= batch_size
    /\ \A j \in DOMAIN Upserted :
        /\ (j < Len(Upserted) \/ pc \in {"embed", "upsert"}) => Upserted[j].n = batch_size
        /\ \A k \in DOMAIN Upserted :
             j < k => Upserted[j].off + Upserted[j].n = Upserted[k].off - (k - j - 1) * batch_size
    /\ \A r \in 1..Len(data) :
        Cardinality({j \in DOMAIN Upserted : InBatch(r, Upserted[j])}) <= 1
    /\ PassDone =>
        /\ \A r \in 1..Len(data) :
             Cardinality({j \in DOMAIN Upserted : InBatch(r, Upserted[j])}) = 1
        /\ Len(Upserted) = CeilDiv(Len(data), batch_size)
        /\ CountOp(calls, "embed") = CeilDiv(Len(data), batch_size)
        /\ CountOp(calls, "upsert") = CeilDiv(Len(data), batch_size)

\* C17 witness: a pass over more rows than one batch holds, the last batch
\* not full, has succeeded.
C17_Witness ==
    /\ PassDone
    /\ Len(data) > batch_size
    /\ Len(data) % batch_size # 0
    /\ Len(Upserted) > 1

\* The calls of a turn, in the order run makes them.
TurnOps == <<"embed", "query", "generate">>

\* The input of the turn has been answered and the next one is awaited.
TurnDone == pc = "await" /\ out # None

\* C18: the calls of a turn are, in this order, one embed call in query mode,
\* one query call for the top_k nearest entries with their metadata, and, only
\* when there are matches, one generate call, each made after the one before
\* it returned; the prompt generated from holds the context of the matches and
\* the input as typed; a termination token makes no call; no step of a turn
\* upserts, writes the flag or adds to the calls of ingestion.
C18_TurnCallSequence ==
    [][/\ Len(turnCalls') <= 3
       /\ \A k \in DOMAIN turnCalls' :
            /\ turnCalls'[k].op = TurnOps[k]
            /\ k < Len(turnCalls') => turnCalls'[k].ok
       /\ Len(turnCalls') >= 1 =>
            turnCalls'[1].mode = "RETRIEVAL_QUERY" /\ turnCalls'[1].n = 1
       /\ Len(turnCalls') >= 2 =>
            turnCalls'[2].mode = "include_metadata" /\ turnCalls'[2].n = top_k
       /\ IsTermination(user_query') => turnCalls' = <<>>
       /\ TurnDone' =>
            /\ ~IsTermination(user_query')
            /\ IF matches' = <<>>
               THEN Len(turnCalls') = 2 /\ turnCalls'[2].ok
               ELSE /\ Len(turnCalls') = 3
                    /\ prompt'.request = user_query'
                    /\ Len(prompt'.context) = Len(matches')
                    /\ \A p \in DOMAIN matches' :
                         /\ prompt'.context[p].title = matches'[p].metadata.title
                         /\ prompt'.context[p].authors = matches'[p].metadata.authors
                    /\ turnCalls'[3].ok => (out'.kind = "generated" /\ out'.of = prompt')
       /\ pc \in {"await"} \cup Processing => UNCHANGED <<flag, store, calls>>]_vars

\* C18 witness: a turn with matches has been answered from a generate call.
C18_Witness ==
    /\ TurnDone
    /\ Len(turnCalls) = 3
    /\ turnCalls[3].ok
    /\ Len(matches) > 1
    /\ prompt.request = user_query

\* C19: once a batch of ingestion has failed the process has ended with an
\* error: it made no call for a later batch, read no input and printed no
\* answer; the flag is absent and, while the index exists, the rows of the
\* batches before the failed one are in it; the step that fails takes nothing
\* out of the index.
C19_FailedIngestionAbortsRun ==
    [][/\ failedAt' # NoOffset =>
            /\ pc' = "done"
            /\ exitKind' \in {"unexpected", "config_error"}
            /\ \A k \in DOMAIN calls' : calls'[k].off <= failedAt'
            /\ turnCalls' = <<>>
            /\ user_query' = <<>>
            /\ out' = None
            /\ ~flag'
            /\ indexExists' =>
                 \A r \in 1..failedAt' :
                    /\ data'[r].bookID \in DOMAIN store'
                    /\ store'[data'[r].bookID].values.mode = "RETRIEVAL_DOCUMENT"
       /\ (failedAt = NoOffset /\ failedAt' # NoOffset) =>
            UNCHANGED <<store, indexExists, flag>>]_vars

\* C19 witness: the second batch failed after the first was upserted, and the
\* rows of the first are in the index of the ended process.
C19_Witness ==
    /\ failedAt = batch_size
    /\ pc = "done"
    /\ indexExists
    /\ \A r \in 1..batch_size : data[r].bookID \in DOMAIN store
    /\ ~flag
    /\ out = None

\* The index after one pass over df that succeeded, from an empty index: one
\* entry per id, made from the last row of df with that id.
SinglePass(df) ==
    LET ids == {df[r].bookID : r \in 1..Len(df)}
        row(id) == df[CHOOSE r \in 1..Len(df) :
                        /\ df[r].bookID = id
                        /\ \A q \in 1..Len(df) : df[q].bookID = id => q <= r]
    IN  [id \in ids |->
            [values |-> [text |-> row(id).description_for_embedding,
                         mode |-> "RETRIEVAL_DOCUMENT"],
             metadata |-> [title |-> row(id).title,
                           authors |-> row(id).authors,
                           average_rating |-> [tenths |-> row(id).average_rating]]]]

\* C20: with the data file as it was at first, the index after a pass that
\* succeeded is the index of a single pass from an empty index, whether the
\* pass is the first of all or follows runs whose ingestion failed after some
\* batches were upserted: no entry is missing, stale or extra.
C20_RerunEqualsSinglePass ==
    (pc = "await" /\ WroteFlag /\ csv = csv0 /\ indexExists) =>
        store = SinglePass(data)

\* C20 witness: a pass has succeeded in the run after one that failed at its
\* second batch, on the same file.
C20_Witness ==
    /\ lastFailedAt > 0
    /\ pc = "await"
    /\ WroteFlag
    /\ csv = csv0
    /\ indexExists
    /\ Cardinality(DOMAIN store) = Len(data)

\* What a turn prints for the input u, the matches ms and the reply of the
\* generation provider: a value fixed by these three and by nothing else.
Answer(u, ms, reply) ==
    IF ms = <<>> THEN NoResults
    ELSE IF reply = "ok"
         THEN [kind |-> "generated",
               of |-> [context |-> [p \in 1..Len(ms) |-> format_result(p, ms[p])],
                       request |-> u, task |-> "only_context"]]
         ELSE [kind |-> "fallback", error |-> reply]

\* ms is an answer of the index st as it is: the nearest top_k entries, each
\* once, with the metadata st holds for them.
AnswerOf(st, ms) ==
    /\ Len(ms) = Min(top_k, Cardinality(DOMAIN st))
    /\ \A p \in DOMAIN ms :
        /\ ms[p].id \in DOMAIN st
        /\ ms[p].metadata = st[ms[p].id].metadata
        /\ \A q \in DOMAIN ms : ms[q].id = ms[p].id => q = p

\* C21: a turn carries nothing over from the turns before it: when it starts
\* nothing of an earlier turn is left to it but the index, the vector embedded
\* is that of its own input, the matches are an answer of the index as it is,
\* the prompt is made of these matches and this input, and the line printed
\* is the answer fixed by the input, the matches and the reply of this turn,
\* whatever the input of the turn before was.
C21_TurnsAreIndependent ==
    /\ pc = "q_embed" =>
        /\ turnCalls = <<>>
        /\ query_embedding = NoVec
        /\ matches = <<>>
        /\ prompt = None
        /\ out = None
    /\ (pc \in {"q_query", "generate"} \/ TurnDone) =>
        query_embedding = [text |-> user_query, mode |-> "RETRIEVAL_QUERY"]
    /\ (pc = "generate" \/ TurnDone) => AnswerOf(store, matches)
    /\ TurnDone =>
        /\ \E reply \in {"ok"} \cup Errors : out = Answer(user_query, matches, reply)
        /\ matches # <<>> => prompt = Answer(user_query, matches, "ok").of
        /\ matches = <<>> => prompt = None

\* C21 witness: a second input, another than the first, has been answered
\* from the index in the same session.
C21_Witness ==
    /\ TurnDone
    /\ prev_query # <<>>
    /\ prev_query # user_query
    /\ out = Answer(user_query, matches, "ok")
    /\ Len(matches) > 1

\* C22: once setup() has returned and the process awaits an input, the index
\* holds an entry for every row loaded from the data file, the file being as
\* it was at first; also in a process that created the index anew and found
\* the flag of an earlier run.
C22_IndexHoldsEveryRecord ==
    (pc = "await" /\ csv = csv0) =>
        /\ indexExists
        /\ \A r \in 1..Len(data) : data[r].bookID \in DOMAIN store

\* The chat loop has been entered and has not ended.
InChat == pc \in {"await"} \cup Processing

\* C23: while the process awaits an input or works on one the flag file
\* exists, setup() having found it or written it; a process reads the flag
\* once, in setup() before any batch, and writes it at most once, after
\* upsert_data, and only when it had found it absent.
C23_MarkerPresentInChat ==
    [][/\ InChat' =>
            /\ flag'
            /\ flagSeen' \in {"present", "absent"}
            /\ flagSeen' = "present" => ~HasOp(calls', "embed")
       /\ (pc' = "setup" /\ pc # "setup") => (flagSeen = "unread" /\ ~HasOp(calls, "embed"))
       /\ flagSeen' # flagSeen =>
            \/ /\ pc = "setup"
               /\ flagSeen = "unread"
               /\ flagSeen' = (IF flag THEN "present" ELSE "absent")
            \/ pc = "done" /\ pc' = "main" /\ flagSeen' = "unread"
       /\ (pc = "setup" /\ pc' # "setup") => flagSeen' # "unread"
       /\ flag' # flag =>
            /\ pc = "write_flag"
            /\ pc' = "await"
            /\ flagSeen = "absent"
            /\ ~flag
       /\ pc' = "write_flag" => (flagSeen' = "absent" /\ ~flag')]_vars

\* C23 witness: a process that wrote the flag is working on an input.
C23_Witness ==
    /\ pc = "generate"
    /\ flag
    /\ flagSeen = "absent"
    /\ runs = 1

\* setup() found the flag absent and no row was loaded.
EmptyPass == flagSeen = "absent" /\ Len(data) = 0

\* C25: with no row loaded and the flag absent, setup() goes straight to
\* writing the flag: the process makes no embed and no upsert call, no batch
\* fails, the flag is there when the chat loop starts and when the process has
\* ended; the process started next finds the flag and makes no embed and no
\* upsert call either.
C25_EmptyCorpusStillMarks ==
    [][/\ (pc = "setup" /\ pc' # "setup" /\ ~flag /\ Len(data) = 0) =>
            /\ pc' = "write_flag"
            /\ calls' = calls
       /\ EmptyPass' =>
            /\ ~HasOp(calls', "embed")
            /\ ~HasOp(calls', "upsert")
            /\ failedAt' = NoOffset
            /\ pc' \in {"write_flag", "done"} \cup {"await"} \cup Processing
            /\ pc' # "write_flag" => flag'
       /\ (EmptyPass /\ pc = "done" /\ pc' = "main") => flag'
       /\ (runs' > 1 /\ flagSeen' = "present" /\ data' = <<>>) =>
            /\ ~HasOp(calls', "embed")
            /\ ~HasOp(calls', "upsert")
            /\ pc' \in {"done"} \cup {"await"} \cup Processing]_vars

\* C25 witness: the second process, on the same file with no row to load,
\* has found the flag that the first one wrote and awaits an input.
C25_Witness ==
    /\ runs = 2
    /\ csvHeader
    /\ csv = csv0
    /\ data = <<>>
    /\ flagSeen = "present"
    /\ pc = "await"
    /\ ~HasOp(calls, "embed")

\* Every call the process made before the chat loop returned, and every
\* embed call returned one vector for each text.
CallsReturned ==
    /\ \A k \in DOMAIN calls : calls[k].ok
    /\ mismatchAt = NoOffset

\* The poll of a process always comes to see the index ready.
ReadyInTheEnd == (pc = "poll") ~> indexReady

\* While the index is not ready the poll goes on: the process stays in it,
\* makes no call, writes no flag and reads no input.
PollWaits ==
    [][(pc = "poll" /\ ~indexReady') =>
          /\ pc' = "poll"
          /\ UNCHANGED <<calls, turnCalls, flag, store, user_query, out>>]_vars

\* C24: if the index comes to be ready and every embed and upsert call
\* returns, a process that has loaded the data file comes to await an input
\* with the flag present; and while a created index is not ready the poll
\* goes on, with no upsert, no flag written and no turn.
C24_StartupLiveness ==
    /\ ([]CallsReturned /\ ReadyInTheEnd) =>
          ((pc = "get_index") ~> (pc = "await" /\ flag))
    /\ PollWaits

====
